---- MODULE Spec2Model ----
(***************************************************************************)
(* Tip allocation and liquid transfer of CustomPipette                     *)
(* (wet_scripting/uninduced_day_5/complete_protocol.py; the day_6 copy has  *)
(* the same code and other plate data).                                     *)
(*                                                                         *)
(* CustomPipette wraps the instrument context of the robot library.  The    *)
(* library calls it makes (super().pick_up_tip, reset_tipracks, drop_tip,   *)
(* aspirate, dispense, blow_out, touch_tip, well.has_tip) are modelled by   *)
(* what they do to the state the wrapper reads: the tip state of the rack   *)
(* wells, the pipette's has_tip and its current_volume.                     *)
(***************************************************************************)
EXTENDS Integers, Sequences, FiniteSets, TLC

VARIABLES
    tip_racks,       \* pipette -> its ordered list of tip racks (load_instrument)
    well_has_tip,    \* rack -> column -> row -> BOOLEAN  (well.has_tip)
    has_tip,         \* pipette -> BOOLEAN                (self.has_tip)
    tipsets,         \* the tip sets picked up and not yet dropped
    max_volume,      \* pipette -> volume in uL           (self.max_volume)
    current_volume,  \* pipette -> volume held            (self.current_volume)
    pc,              \* "idle", "input" (blocked in input()), "retry"
    call,            \* the wrapper call in progress, or the last one finished
    driver,          \* the library calls issued by that call, in order
    ncalls,          \* number of wrapper calls made so far
    final_positions, \* the appended plate data: one entry per destination well
    iptg_volume,     \* the appended inducer volume, in uL
    run              \* where run() stands, and its local variables

vars == <<tip_racks, well_has_tip, has_tip, tipsets, max_volume,
          current_volume, pc, call, driver, ncalls,
          final_positions, iptg_volume, run>>

\* the module data and the locals of run()
runvars == <<final_positions, iptg_volume, run>>

----------------------------------------------------------------------------
(* Bounds of the model *)

\* columns of a tip rack (12 on the real rack)
NumCols == 2
\* racks on the deck: rack 1 holds 300 uL tips, racks 2..NumRacks 20 uL tips
NumRacks == 3
\* wrapper calls in one behaviour
MaxCalls == 5
\* largest requested volume and largest pipette volume drawn, in uL
MaxVol == 56
\* columns of the destination plate (12 on the real plate)
PlateCols == 2

(* Program constants *)

\* rows of a tip rack: next_tip hardcodes 7 and 8
NumRows == 8
\* the over-aspiration factor 1.1, in tenths
ReverseTenths == 11
\* length of a column's occupancy vector: [False]*12
OccupancyLen == 12
\* cells of more than 10 uL go with the p300
CellThreshold == 10

Pipettes == {"p300", "p20"}
Racks == 1..NumRacks
Cols == 0..(NumCols - 1)
Rows == 0..(NumRows - 1)

\* p300_single has one channel, p20_multi_gen2 has eight
channels == [p \in Pipettes |-> IF p = "p300" THEN 1 ELSE 8]

Min(a, b) == IF a <= b THEN a ELSE b


----------------------------------------------------------------------------
(* Volumes are Python floats (IEEE binary64).  A double x is the pair       *)
(* <<a, b>> with x = (a * 2^55 + b) / (10 * 2^55): a is the value in tenths *)
(* of a microlitre and b the distance from that decimal value, in units of  *)
(* U = 1/(10 * 2^55).  All values of the model have |b| < 2^54, so two      *)
(* doubles are equal iff their pairs are, and ordered lexicographically.    *)
(* The literal 1.1 is the double (11 * 2^55 + 32) / (10 * 2^55).            *)

\* an integer number of microlitres, which is exactly a double
Dbl(v) == <<10 * v, 0>>

FloatLeq(x, y) == x[1] < y[1] \/ (x[1] = y[1] /\ x[2] <= y[2])
FloatGt(x, y) == ~FloatLeq(x, y)
FloatMin(x, y) == IF FloatLeq(x, y) THEN x ELSE y

\* 2^k mod 5
Pow2Mod5(k) == <<1, 2, 4, 3>>[(k % 4) + 1]

\* the binary exponent e of a value of a >= 1 tenths: 2^e <= value < 2^(e+1)
FloatExponent(a, b) ==
    LET e == CHOOSE x \in (0 - 4)..24 :
                 10 * 2^(x + 4) <= 16 * a /\ 16 * a < 10 * 2^(x + 5)
    IN  IF 16 * a = 10 * 2^(e + 4) /\ b < 0 THEN e - 1 ELSE e

\* round-to-nearest, ties-to-even, of the exact value <<a, b>>: the doubles
\* of exponent e are the multiples of M = 5 * 2^(e+4) units
FloatRound(a, b) ==
    IF a = 0 THEN <<a, b>>
    ELSE LET e == FloatExponent(a, b)
             M == 5 * 2^(e + 4)
             r == (2^(e + 4) * (((a % 5) * Pow2Mod5(51 - e)) % 5) + b) % M
             q == (2^(e + 5) * (((a % 5) * Pow2Mod5(50 - e)) % 5) + (b - r)) % (2 * M)
         IN  IF r = 0 THEN <<a, b>>
             ELSE IF 2 * r < M THEN <<a, b - r>>
             ELSE IF 2 * r > M THEN <<a, b - r + M>>
             ELSE IF q = 0 THEN <<a, b - r>>
             ELSE <<a, b - r + M>>

\* volume * 1.1 for an integer volume v
FloatMul11(v) == FloatRound(ReverseTenths * v, 32 * v)

FloatAdd(x, y) == FloatRound(x[1] + y[1], x[2] + y[2])
FloatSub(x, y) == FloatRound(x[1] - y[1], x[2] - y[2])

----------------------------------------------------------------------------
(* Tip racks and the search for the next tip *)

\* a well of a tip rack: <<rack, column, row>>
Slots == Racks \X Cols \X Rows
NoSlot == <<0, 0, 0>>

\* nominal tip volume of a rack's wells: opentrons_96_tiprack_300ul, _20ul
TipVolume(rack) == IF rack = 1 THEN 300 ELSE 20

\* the rack lists a pipette may be loaded with: p300 gets the 300 uL rack,
\* p20 any prefix of the 20 uL racks (run() loads one rack on each)
RackLists(p) ==
    IF p = "p300" THEN {<<1>>}
    ELSE {[i \in 1..n |-> i + 1] : n \in 0..(NumRacks - 1)}

FullRack == [c \in Cols |-> [r \in Rows |-> TRUE]]

\* all(truth_table[i1][well_index:well_index+number_of_tips])
AllTips(column, well_index, number_of_tips) ==
    \A k \in well_index..(well_index + number_of_tips - 1) :
        k \in Rows => column[k]

\* the inner loop of next_tip: well_index runs from 7 down to 0, indices
\* whose run would leave the column are skipped, the first hit wins.
\* The result is the row found, or -1.
RECURSIVE ScanColumnFrom(_, _, _)
ScanColumnFrom(column, number_of_tips, well_index) ==
    IF well_index < 0 THEN 0 - 1
    ELSE IF well_index + number_of_tips > 8
         THEN ScanColumnFrom(column, number_of_tips, well_index - 1)
    ELSE IF AllTips(column, well_index, number_of_tips) THEN well_index
    ELSE ScanColumnFrom(column, number_of_tips, well_index - 1)

ScanColumnTopDown(column, number_of_tips) ==
    IF \E s \in Rows : s + number_of_tips <= 8 /\ AllTips(column, s, number_of_tips)
    THEN CHOOSE s \in Rows :
             /\ s + number_of_tips <= 8 /\ AllTips(column, s, number_of_tips)
             /\ \A t \in Rows : (t + number_of_tips <= 8
                                 /\ AllTips(column, t, number_of_tips)) => s <= t
    ELSE 0 - 1

ScanColumn(column, number_of_tips) ==
    ScanColumnFrom(column, number_of_tips, 7)

\* the column loop of next_tip: columns in the rack's order, i1 = 0, 1, ...
\* The result is <<column, row>>, or <<-1, -1>>.
RECURSIVE ScanRackFrom(_, _, _)
ScanRackFrom(table, number_of_tips, i1) ==
    IF i1 >= NumCols THEN <<0 - 1, 0 - 1>>
    ELSE LET row == ScanColumn(table[i1], number_of_tips)
         IN  IF row >= 0 THEN <<i1, row>>
             ELSE ScanRackFrom(table, number_of_tips, i1 + 1)

\* the rack loop of next_tip: self.tip_racks in list order from index i
RECURSIVE ScanRacksFrom(_, _, _, _)
ScanRacksFrom(racks, table, number_of_tips, i) ==
    IF i > Len(racks) THEN [found |-> FALSE, slot |-> NoSlot]
    ELSE LET hit == ScanRackFrom(table[racks[i]], number_of_tips, 0)
         IN  IF hit[1] >= 0
             THEN [found |-> TRUE, slot |-> <<racks[i], hit[1], hit[2]>>]
             ELSE ScanRacksFrom(racks, table, number_of_tips, i + 1)

ScanRacksLastFirst(racks, table, number_of_tips) ==
    ScanRacksFrom([i \in 1..Len(racks) |-> racks[Len(racks) + 1 - i]],
                  table, number_of_tips, 1)

ScanRacks(racks, table, number_of_tips) ==
    ScanRacksFrom(racks, table, number_of_tips, 1)

\* self.next_tip(number_of_tips); found = FALSE is OutOfTipsError
next_tip(p, number_of_tips) ==
    ScanRacks(tip_racks[p], well_has_tip, number_of_tips)

----------------------------------------------------------------------------
(* The destination plate and the data appended to the protocol *)

\* letters = "ABCDEFGH": a row of the plate is an index into it
letters == <<"A", "B", "C", "D", "E", "F", "G", "H">>
PlateRows == 0..(Len(letters) - 1)
PlateColumns == 1..PlateCols

\* a destination well 'B2' is [row |-> 1, column |-> 2]
Location(row, column) == [row |-> row, column |-> column]

\* run() before it is called, and its locals: the loop index i, the pass
\* and the column of the induction, the pipette and the volume of the cell
\* transfer under way, the plan of the pass (column -> <<start_row,
\* num_tips>>) with its liquid source, and the wells under the tips of the
\* last induction delivery
RunOff ==
    [step |-> "off", i |-> 0, pass |-> 0, column |-> 0,
     pipette |-> "p300", volume |-> 0,
     column_occupancy |-> [c \in PlateColumns |-> <<0, 0>>],
     iptg_source |-> "none",
     served |-> {}]

----------------------------------------------------------------------------
(* The wrapper call in progress *)

\* the number argument: an int, or a value that is no int (2.0)
Numbers ==
    {[isint |-> TRUE, val |-> n] : n \in {0, 1, 3, 8, 9}}
        \cup {[isint |-> FALSE, val |-> 2]}

\* the default of the number argument
DefaultNumber == [isint |-> TRUE, val |-> 1]

NewCall(op, p) ==
    [op |-> op, p |-> p, number |-> [isint |-> TRUE, val |-> 1],
     location |-> NoSlot, searches |-> 0, prompts |-> 0, resets |-> 0,
     target |-> NoSlot, result |-> "running",
     volume |-> 0, reverse |-> FALSE, blow_out |-> FALSE, touch_tip |-> FALSE,
     available |-> <<0, 0>>, aspiration_volume |-> <<0, 0>>,
     returned |-> <<0, 0>>]

\* not isinstance(number, int) or not 0 < number <= self.channels
InvalidNumberNoLowerBound(p, number) ==
    ~number.isint \/ ~(number.val <= channels[p])

InvalidNumber(p, number) ==
    ~number.isint \/ ~(0 < number.val /\ number.val <= channels[p])

----------------------------------------------------------------------------
(* The library's side of a pickup, a rack reset and a drop *)

\* the library refuses a pickup while a tip is attached
TipAttachedNever(p) == FALSE

TipAttached(p) == has_tip[p]

NozzleSlotsFirstOnly(p, slot) == {slot}

\* the wells under the nozzles when the first nozzle is at slot: the rows
\* from slot's row on, one per channel, as far as the column goes
NozzleSlots(p, slot) ==
    {<<slot[1], slot[2], r>> :
        r \in slot[3]..Min(slot[3] + channels[p] - 1, NumRows - 1)}

\* the tips that come off the rack: the wells under the nozzles that hold one
PickedSlots(p, slot) == {w \in NozzleSlots(p, slot) : well_has_tip[w[1]][w[2]][w[3]]}

UsedKeepTips(p, slot) == well_has_tip

\* the rack state after the pickup: the wells under the nozzles are used
Used(p, slot) ==
    [rk \in Racks |-> [c \in Cols |-> [r \in Rows |->
        IF <<rk, c, r>> \in NozzleSlots(p, slot) THEN FALSE
        ELSE well_has_tip[rk][c][r]]]]

\* super().pick_up_tip(location=slot) as the last step of call c, which
\* has issued the library calls issued so far
LibPickUpTip(p, slot, c, issued) ==
    IF TipAttached(p)
    THEN /\ call' = [c EXCEPT !.result = "TipAttachedError"]
         /\ driver' = issued
         /\ UNCHANGED <<well_has_tip, has_tip, tipsets, current_volume>>
    ELSE /\ well_has_tip' = Used(p, slot)
         /\ has_tip' = [has_tip EXCEPT ![p] = TRUE]
         /\ tipsets' = tipsets \cup
                {[p |-> p, slots |-> PickedSlots(p, slot), id |-> ncalls + 1]}
         /\ current_volume' = [current_volume EXCEPT ![p] = <<0, 0>>]
         /\ driver' = Append(issued, [op |-> "pick_up_tip", slot |-> slot, volume |-> <<0, 0>>, at |-> "rack"])
         /\ call' = [c EXCEPT !.result = "ok", !.target = slot]

ResetNothing(p) == well_has_tip

ResetFirstRackOnly(p) ==
    [rk \in Racks |->
        IF Len(tip_racks[p]) > 0 /\ rk = tip_racks[p][1] THEN FullRack
        ELSE well_has_tip[rk]]

ResetEveryRack(p) == [rk \in Racks |-> FullRack]

\* super().reset_tipracks(): every well of every rack of the pipette has a tip
reset_tipracks(p) ==
    [rk \in Racks |->
        IF \E i \in 1..Len(tip_racks[p]) : tip_racks[p][i] = rk THEN FullRack
        ELSE well_has_tip[rk]]

----------------------------------------------------------------------------
(* CustomPipette.pick_up_tip *)

\* the explicit location a caller passes: a well of the pipette's first rack
Locations(p) ==
    {w \in Slots : /\ Len(tip_racks[p]) > 0 /\ w[1] = tip_racks[p][1]
                   /\ w[2] = 0 /\ w[3] = 2}

\* the second search fails too: OutOfTipsError leaves pick_up_tip
RetryPromptsAgain(c) ==
    [pc |-> "input", call |-> [c EXCEPT !.prompts = @ + 1]]

RetryExhausted(c) ==
    [pc |-> "idle", call |-> [c EXCEPT !.result = "OutOfTipsError"]]

\* lines 35-61: up to the pickup, or up to the input() that waits for the
\* operator
PickUpTip(p, number, location) ==
    /\ pc = "idle"
    /\ ncalls < MaxCalls
    /\ ncalls' = ncalls + 1
    /\ UNCHANGED <<tip_racks, max_volume>>
    /\ LET c0 == [NewCall("pick_up_tip", p) EXCEPT
                     !.number = number, !.location = location]
       IN  IF location # NoSlot
           THEN /\ LibPickUpTip(p, location, c0, << >>)
                /\ pc' = "idle"
           ELSE IF InvalidNumber(p, number)
           THEN /\ call' = [c0 EXCEPT !.result = "ValueError"]
                /\ driver' = << >>
                /\ pc' = "idle"
                /\ UNCHANGED <<well_has_tip, has_tip, tipsets, current_volume>>
           ELSE LET nt == next_tip(p, number.val)
                    c1 == [c0 EXCEPT !.searches = 1]
                IN  IF nt.found
                    THEN /\ LibPickUpTip(p, nt.slot, c1, << >>)
                         /\ pc' = "idle"
                    ELSE /\ call' = [c1 EXCEPT !.prompts = 1]
                         /\ driver' = <<[op |-> "input", slot |-> NoSlot, volume |-> <<0, 0>>, at |-> "operator"]>>
                         /\ pc' = "input"
                         /\ UNCHANGED <<well_has_tip, has_tip, tipsets,
                                        current_volume>>

OperatorAckNoReset ==
    /\ pc = "input"
    /\ call' = call
    /\ pc' = "retry"
    /\ UNCHANGED <<tip_racks, well_has_tip, has_tip, tipsets, max_volume,
                   current_volume, driver, ncalls>>

\* line 60 returns (the operator pressed enter), line 61 resets the racks
OperatorAck ==
    /\ pc = "input"
    /\ well_has_tip' = reset_tipracks(call.p)
    /\ call' = [call EXCEPT !.resets = @ + 1]
    /\ driver' = Append(driver, [op |-> "reset_tipracks", slot |-> NoSlot, volume |-> <<0, 0>>, at |-> "rack"])
    /\ pc' = "retry"
    /\ UNCHANGED <<tip_racks, has_tip, tipsets, max_volume, current_volume, ncalls>>

RetryWithoutSearch ==
    /\ pc = "retry"
    /\ call' = [call EXCEPT !.result = "OutOfTipsError"]
    /\ pc' = "idle"
    /\ UNCHANGED <<tip_racks, well_has_tip, has_tip, tipsets, max_volume,
                   current_volume, driver, ncalls>>

\* lines 63-86: the second search and the pickup
Retry ==
    /\ pc = "retry"
    /\ UNCHANGED <<tip_racks, max_volume, ncalls>>
    /\ LET nt == next_tip(call.p, call.number.val)
           c1 == [call EXCEPT !.searches = @ + 1]
       IN  IF nt.found
           THEN /\ LibPickUpTip(call.p, nt.slot, c1, driver)
                /\ pc' = "idle"
           ELSE /\ call' = RetryExhausted(c1).call
                /\ pc' = RetryExhausted(c1).pc
                /\ driver' = IF RetryExhausted(c1).pc = "input"
                             THEN Append(driver, [op |-> "input", slot |-> NoSlot, volume |-> <<0, 0>>, at |-> "operator"])
                             ELSE driver
                /\ UNCHANGED <<well_has_tip, has_tip, tipsets, current_volume>>

DropTipReturnsTips(p) ==
    /\ pc = "idle"
    /\ has_tip[p]
    /\ has_tip' = [has_tip EXCEPT ![p] = FALSE]
    /\ tipsets' = {t \in tipsets : t.p # p}
    /\ well_has_tip' =
           [rk \in Racks |-> [c \in Cols |-> [r \in Rows |->
               \/ well_has_tip[rk][c][r]
               \/ \E t \in tipsets : t.p = p /\ <<rk, c, r>> \in t.slots]]]
    /\ current_volume' = [current_volume EXCEPT ![p] = <<0, 0>>]
    /\ call' = [NewCall("drop_tip", p) EXCEPT !.result = "ok"]
    /\ driver' = <<[op |-> "drop_tip", slot |-> NoSlot, volume |-> <<0, 0>>, at |-> "trash"]>>
    /\ UNCHANGED <<tip_racks, max_volume, pc, ncalls>>

\* the library's drop_tip: the tips go to the trash, the rack is not touched
DropTip(p) ==
    /\ pc = "idle"
    /\ has_tip[p]
    /\ has_tip' = [has_tip EXCEPT ![p] = FALSE]
    /\ tipsets' = {t \in tipsets : t.p # p}
    /\ current_volume' = [current_volume EXCEPT ![p] = <<0, 0>>]
    /\ call' = [NewCall("drop_tip", p) EXCEPT !.result = "ok"]
    /\ driver' = <<[op |-> "drop_tip", slot |-> NoSlot, volume |-> <<0, 0>>, at |-> "trash"]>>
    /\ UNCHANGED <<tip_racks, well_has_tip, max_volume, pc, ncalls>>

----------------------------------------------------------------------------
(* The allocator: pickups, refills and drops by the two pipettes *)

Init ==
    /\ tip_racks \in [Pipettes -> UNION {RackLists(p) : p \in Pipettes}]
    /\ \A p \in Pipettes : tip_racks[p] \in RackLists(p)
    /\ well_has_tip = [rk \in Racks |-> FullRack]
    /\ has_tip = [p \in Pipettes |-> FALSE]
    /\ tipsets = {}
    /\ max_volume = [p \in Pipettes |-> IF p = "p300" THEN 300 ELSE 20]
    /\ current_volume = [p \in Pipettes |-> <<0, 0>>]
    /\ pc = "idle"
    /\ call = [NewCall("none", "p300") EXCEPT !.result = "ok"]
    /\ driver = << >>
    /\ ncalls = 0
    /\ final_positions = << >>
    /\ iptg_volume = 0
    /\ run = RunOff

Next ==
    \/ \E p \in Pipettes, number \in Numbers :
           PickUpTip(p, number, NoSlot) /\ UNCHANGED runvars
    \/ \E p \in Pipettes :
           \E location \in Locations(p) :
               PickUpTip(p, DefaultNumber, location) /\ UNCHANGED runvars
    \/ OperatorAck /\ UNCHANGED runvars
    \/ Retry /\ UNCHANGED runvars
    \/ \E p \in Pipettes : DropTip(p) /\ UNCHANGED runvars

Spec == Init /\ [][Next]_vars

\* the allocator with an operator who acknowledges every prompt: input()
\* returns, and the code after it runs
SpecFair ==
    /\ Spec
    /\ WF_vars(OperatorAck /\ UNCHANGED runvars)
    /\ WF_vars(Retry /\ UNCHANGED runvars)

----------------------------------------------------------------------------
(* CustomPipette.get_available_volume and CustomPipette.transfer *)

Zero == <<0, 0>>

DriverCall(op, volume, at) == [op |-> op, slot |-> NoSlot, volume |-> volume, at |-> at]

GetAvailableVolumeIgnoresHeld(p, current) ==
    [ok |-> TRUE, volume |-> Dbl(max_volume[p])]

\* get_available_volume() when the pipette holds current: ok = FALSE is the
\* OutOfTipsError of next_tip(1)
get_available_volume(p, current) ==
    IF has_tip[p]
    THEN [ok |-> TRUE, volume |-> FloatSub(Dbl(max_volume[p]), current)]
    ELSE LET nt == next_tip(p, 1)
         IN  IF nt.found
             THEN [ok |-> TRUE,
                   volume |-> FloatMin(Dbl(TipVolume(nt.slot[1])), Dbl(max_volume[p]))]
             ELSE [ok |-> FALSE, volume |-> Zero]

AspirationVolumeNoMargin(volume, reverse, available) == Dbl(volume)

\* lines 122, 128-129: the volume to aspirate
AspirationVolume(volume, reverse, available) ==
    IF reverse /\ FloatLeq(FloatMul11(volume), available)
    THEN FloatMul11(volume)
    ELSE Dbl(volume)

DispenseAspirated(volume, aspiration_volume) == aspiration_volume

DispenseNothing(volume, aspiration_volume) == Zero

\* lines 123, 134: the volume dispensed into the destination
DispenseVolume(volume, aspiration_volume) == Dbl(volume)

TooLargeNever(aspiration_volume, available) == FALSE

\* line 130: the capacity check
TooLarge(aspiration_volume, available) == FloatGt(aspiration_volume, available)

\* the library's volume bookkeeping
AfterAspirate(current, volume) == FloatAdd(current, volume)

AfterDispenseKeeps(current, volume) == current

AfterDispense(current, volume) ==
    IF FloatLeq(current, volume) THEN Zero ELSE FloatSub(current, volume)

AfterBlowOut(current) == Zero

\* the whole of transfer(volume, source, destination, ...), volume in uL
Transfer(p, volume, touch_tip, blow_out, reverse) ==
    /\ pc = "idle"
    /\ UNCHANGED <<tip_racks, well_has_tip, has_tip, tipsets, max_volume, pc, ncalls>>
    /\ LET c0 == [NewCall("transfer", p) EXCEPT
                     !.volume = volume, !.touch_tip = touch_tip,
                     !.blow_out = blow_out, !.reverse = reverse]
           residual == current_volume[p]
           \* lines 125-126
           d1 == IF residual # Zero
                 THEN <<DriverCall("dispense", residual, "source")>> ELSE << >>
           cur1 == IF residual # Zero THEN AfterDispense(residual, residual)
                   ELSE residual
           avail == get_available_volume(p, cur1)
           asp == AspirationVolume(volume, reverse, avail.volume)
           c1 == [c0 EXCEPT !.available = avail.volume, !.aspiration_volume = asp]
           \* lines 133-134
           d2 == d1 \o <<DriverCall("aspirate", asp, "source"),
                         DriverCall("dispense", DispenseVolume(volume, asp),
                                    "destination")>>
           cur2 == AfterDispense(AfterAspirate(cur1, asp), DispenseVolume(volume, asp))
           \* lines 135-138
           d3 == IF blow_out
                 THEN Append(d2, DriverCall("blow_out", Zero, "destination")) ELSE d2
           cur3 == IF blow_out THEN AfterBlowOut(cur2) ELSE cur2
           d4 == IF touch_tip
                 THEN Append(d3, DriverCall("touch_tip", Zero, "destination")) ELSE d3
       IN  IF ~avail.ok
           THEN /\ call' = [c0 EXCEPT !.result = "OutOfTipsError", !.searches = 1]
                /\ driver' = d1
                /\ current_volume' = [current_volume EXCEPT ![p] = cur1]
           ELSE IF TooLarge(asp, avail.volume)
           THEN /\ call' = [c1 EXCEPT !.result = "ValueError"]
                /\ driver' = d1
                /\ current_volume' = [current_volume EXCEPT ![p] = cur1]
           ELSE IF ~has_tip[p]
           THEN \* the library refuses to aspirate without a tip
                /\ call' = [c1 EXCEPT !.result = "NoTipError"]
                /\ driver' = d1
                /\ current_volume' = [current_volume EXCEPT ![p] = cur1]
           ELSE /\ call' = [c1 EXCEPT !.result = "ok", !.returned = cur3]
                /\ driver' = d4
                /\ current_volume' = [current_volume EXCEPT ![p] = cur3]

----------------------------------------------------------------------------
(* One transfer on a pipette of any rated volume: the volume guard as a     *)
(* function of the requested volume and the headroom                        *)

Volumes == 0..MaxVol

InitTransfer ==
    /\ tip_racks = [p \in Pipettes |-> IF p = "p300" THEN <<1>> ELSE <<2>>]
    /\ well_has_tip = [rk \in Racks |-> FullRack]
    /\ has_tip = [p \in Pipettes |-> FALSE]
    /\ tipsets = {}
    /\ \E h \in 1..MaxVol : max_volume = [p \in Pipettes |-> h]
    /\ current_volume = [p \in Pipettes |-> Zero]
    /\ pc = "idle"
    /\ call = [NewCall("none", "p300") EXCEPT !.result = "ok"]
    /\ driver = << >>
    /\ ncalls = 0
    /\ final_positions = << >>
    /\ iptg_volume = 0
    /\ run = RunOff

NextTransfer ==
    \/ \E p \in Pipettes :
           /\ call.op = "none" /\ PickUpTip(p, DefaultNumber, NoSlot)
           /\ UNCHANGED runvars
    \/ \E p \in Pipettes, volume \in Volumes :
           \E touch_tip \in BOOLEAN, blow_out \in BOOLEAN, reverse \in BOOLEAN :
               /\ call.op \in {"none", "pick_up_tip"}
               /\ Transfer(p, volume, touch_tip, blow_out, reverse)
               /\ UNCHANGED runvars
    \/ \E p \in Pipettes : DropTip(p) /\ UNCHANGED runvars

SpecTransfer == InitTransfer /\ [][NextTransfer]_vars

----------------------------------------------------------------------------
(* run(): the bulk fill, the cell transfers and the two induction passes *)

\* the destination wells the model draws: rows B, C and F of every column
ValidRows == {1, 2, 5}
PlateWells == {Location(r, c) : r \in ValidRows, c \in PlateColumns}

\* entries of final_positions: a run makes one pickup for the bulk fill, at
\* most one per entry for the cells and at most one per entry for the
\* induction
MaxWells == (MaxCalls - 1) \div 2

\* the volumes the data may hold: LB (value[4]), cells (value[3]), inducer
LbVolumes == {100, 280, 301}
CellVolumes == {10, 11}
IptgVolumes == {9, 21}

\* an entry of final_positions: the destination well, whether the source is
\* "blank", and whether the well is listed in induced_wells
Entries == [location : PlateWells, blank : BOOLEAN, induced : BOOLEAN]

\* lines 217-219: the wells of a pass, pass 0 the induced ones
PassLocations(pass) ==
    {final_positions[k].location : k \in
        {j \in 1..Len(final_positions) : final_positions[j].induced = (pass = 0)}}

PassSourceSwapped(pass) == IF pass = 0 THEN "lb_location" ELSE "iptg_location"

\* line 219: the liquid of a pass, the inducer for pass 0
PassSource(pass) == IF pass = 0 THEN "iptg_location" ELSE "lb_location"

\* lines 226-229: the occupancy vector of a column, indices 0..11
OccupancyVector(locations, column) ==
    [x \in 0..(OccupancyLen - 1) |-> Location(x, column) \in locations]

\* the indices with True
Occupied(vector) == {x \in DOMAIN vector : vector[x]}

StartRowLast(vector) ==
    IF Occupied(vector) = {} THEN 0
    ELSE CHOOSE x \in Occupied(vector) : \A y \in Occupied(vector) : y <= x

\* line 232, and line 235 when next() finds no True
start_row(vector) ==
    IF Occupied(vector) = {} THEN 0
    ELSE CHOOSE x \in Occupied(vector) : \A y \in Occupied(vector) : x <= y

NumTipsSpan(vector) ==
    IF Occupied(vector) = {} THEN 0
    ELSE StartRowLast(vector) - start_row(vector) + 1

NumTipsVectorLength(vector) == OccupancyLen

NumTipsPlusOne(vector) ==
    IF Occupied(vector) = {} THEN 0 ELSE Cardinality(Occupied(vector)) + 1

\* line 233, and line 236
num_tips(vector) ==
    IF Occupied(vector) = {} THEN 0 ELSE Cardinality(Occupied(vector))

\* lines 230-238: the plan of every column
ColumnPlan(locations) ==
    [column \in PlateColumns |->
        <<start_row(OccupancyVector(locations, column)),
          num_tips(OccupancyVector(locations, column))>>]

SkipColumnNever(plan) == FALSE

\* line 241
SkipColumn(plan) == plan[2] = 0

CellPipetteAlwaysMulti(cell_volume) == "p20"

\* lines 199-202
CellPipette(cell_volume) == IF cell_volume > CellThreshold THEN "p300" ELSE "p20"

\* the wells under the tips when the first nozzle is at start_point: one
\* row per tip attached, from the row of start_point on
ServedWellsFromRowA(p, row, column) ==
    LET n == Cardinality(UNION {t.slots : t \in {u \in tipsets : u.p = p}})
    IN  {Location(r, column) : r \in 0..(n - 1)}

ServedWells(p, row, column) ==
    LET n == Cardinality(UNION {t.slots : t \in {u \in tipsets : u.p = p}})
    IN  {Location(r, column) : r \in row..(row + n - 1)}

PropagateRetries(result, next) ==
    IF result = "ok" THEN next ELSE run

\* run() catches nothing: an exception of a call ends it where it stands
Propagate(result, next) ==
    IF result = "ok" THEN next ELSE [run EXCEPT !.step = "aborted"]

\* the cell loop from entry i on; after the last entry, the first pass
CellLoop(i) ==
    IF i <= Len(final_positions)
    THEN [run EXCEPT !.step = "cells", !.i = i]
    ELSE [run EXCEPT !.step = "plan", !.i = i, !.pass = 0]

\* the column loop from column on; after the last column the next pass, and
\* after the second pass line 249
ColumnLoop(column) ==
    IF column <= PlateCols
    THEN [run EXCEPT !.step = "induce", !.column = column]
    ELSE IF run.pass = 0
    THEN [run EXCEPT !.step = "plan", !.pass = 1, !.column = column]
    ELSE [run EXCEPT !.step = "home", !.column = column]

\* line 192
BulkPickUp ==
    /\ run.step = "start"
    /\ PickUpTip("p300", DefaultNumber, NoSlot)
    /\ run' = Propagate(call'.result, [run EXCEPT !.step = "lb", !.i = 1])
    /\ UNCHANGED <<final_positions, iptg_volume>>

\* lines 193-194: the LB of entry i, its volume read from the entry
BulkTransfer ==
    /\ run.step = "lb"
    /\ run.i <= Len(final_positions)
    /\ \E lb_volume \in LbVolumes :
           Transfer("p300", lb_volume, TRUE, FALSE, TRUE)
    /\ run' = Propagate(call'.result, [run EXCEPT !.i = @ + 1])
    /\ UNCHANGED <<final_positions, iptg_volume>>

\* line 195
BulkDrop ==
    /\ run.step = "lb"
    /\ run.i > Len(final_positions)
    /\ DropTip("p300")
    /\ run' = CellLoop(1)
    /\ UNCHANGED <<final_positions, iptg_volume>>

\* lines 198-204 for an entry whose source is "blank": no pickup, no transfer
CellBlank ==
    /\ run.step = "cells"
    /\ final_positions[run.i].blank
    /\ run' = CellLoop(run.i + 1)
    /\ UNCHANGED <<tip_racks, well_has_tip, has_tip, tipsets, max_volume,
                   current_volume, pc, call, driver, ncalls,
                   final_positions, iptg_volume>>

\* lines 198-206: the pipette for the cells of entry i, and its pickup
CellPickUp ==
    /\ run.step = "cells"
    /\ ~final_positions[run.i].blank
    /\ \E cell_volume \in CellVolumes :
           /\ PickUpTip(CellPipette(cell_volume), DefaultNumber, NoSlot)
           /\ run' = Propagate(call'.result,
                         [run EXCEPT !.step = "cell_transfer",
                                     !.pipette = CellPipette(cell_volume),
                                     !.volume = cell_volume])
    /\ UNCHANGED <<final_positions, iptg_volume>>

\* lines 209-213
CellTransfer ==
    /\ run.step = "cell_transfer"
    /\ Transfer(run.pipette, run.volume, TRUE, FALSE, TRUE)
    /\ run' = Propagate(call'.result, [run EXCEPT !.step = "cell_drop"])
    /\ UNCHANGED <<final_positions, iptg_volume>>

\* line 214
CellDrop ==
    /\ run.step = "cell_drop"
    /\ DropTip(run.pipette)
    /\ run' = CellLoop(run.i + 1)
    /\ UNCHANGED <<final_positions, iptg_volume>>

\* lines 219-238: the plan of a pass
RunPlan ==
    /\ run.step = "plan"
    /\ run' = [run EXCEPT !.step = "induce", !.column = 1,
                          !.column_occupancy = ColumnPlan(PassLocations(run.pass)),
                          !.iptg_source = PassSource(run.pass)]
    /\ UNCHANGED <<tip_racks, well_has_tip, has_tip, tipsets, max_volume,
                   current_volume, pc, call, driver, ncalls,
                   final_positions, iptg_volume>>

\* lines 240-242: a column without tips to pick up is passed over
InduceSkip ==
    /\ run.step = "induce"
    /\ SkipColumn(run.column_occupancy[run.column])
    /\ run' = ColumnLoop(run.column + 1)
    /\ UNCHANGED <<tip_racks, well_has_tip, has_tip, tipsets, max_volume,
                   current_volume, pc, call, driver, ncalls,
                   final_positions, iptg_volume>>

\* line 243
InducePickUp ==
    /\ run.step = "induce"
    /\ ~SkipColumn(run.column_occupancy[run.column])
    /\ PickUpTip("p20", [isint |-> TRUE,
                         val |-> run.column_occupancy[run.column][2]], NoSlot)
    /\ run' = Propagate(call'.result, [run EXCEPT !.step = "induce_transfer"])
    /\ UNCHANGED <<final_positions, iptg_volume>>

\* lines 244-245: the first nozzle goes to the start row of the column
InduceTransfer ==
    /\ run.step = "induce_transfer"
    /\ Transfer("p20", iptg_volume, TRUE, FALSE, TRUE)
    /\ run' = Propagate(call'.result,
                  [run EXCEPT !.step = "induce_drop",
                              !.served = ServedWells("p20",
                                  run.column_occupancy[run.column][1],
                                  run.column)])
    /\ UNCHANGED <<final_positions, iptg_volume>>

\* line 246
InduceDrop ==
    /\ run.step = "induce_drop"
    /\ DropTip("p20")
    /\ run' = ColumnLoop(run.column + 1)
    /\ UNCHANGED <<final_positions, iptg_volume>>

\* line 249
Home ==
    /\ run.step = "home"
    /\ run' = [run EXCEPT !.step = "done"]
    /\ UNCHANGED <<tip_racks, well_has_tip, has_tip, tipsets, max_volume,
                   current_volume, pc, call, driver, ncalls,
                   final_positions, iptg_volume>>

\* run() is called on a deck with one full rack for each pipette; the data
\* are up to MaxWells entries for distinct wells
InitRun ==
    /\ tip_racks = [p \in Pipettes |-> IF p = "p300" THEN <<1>> ELSE <<2>>]
    /\ well_has_tip = [rk \in Racks |-> FullRack]
    /\ has_tip = [p \in Pipettes |-> FALSE]
    /\ tipsets = {}
    /\ max_volume = [p \in Pipettes |-> IF p = "p300" THEN 300 ELSE 20]
    /\ current_volume = [p \in Pipettes |-> Zero]
    /\ pc = "idle"
    /\ call = [NewCall("none", "p300") EXCEPT !.result = "ok"]
    /\ driver = << >>
    /\ ncalls = 0
    /\ \E n \in 0..MaxWells :
           /\ final_positions \in [1..n -> Entries]
           /\ \A j, k \in 1..n :
                  j # k => final_positions[j].location # final_positions[k].location
    /\ iptg_volume \in IptgVolumes
    /\ run = [RunOff EXCEPT !.step = "start"]

\* the racks outlast the pickups of a run of MaxWells entries, so no pickup
\* of the run waits for the operator
NextRun ==
    \/ BulkPickUp
    \/ BulkTransfer
    \/ BulkDrop
    \/ CellBlank
    \/ CellPickUp
    \/ CellTransfer
    \/ CellDrop
    \/ RunPlan
    \/ InduceSkip
    \/ InducePickUp
    \/ InduceTransfer
    \/ InduceDrop
    \/ Home

SpecRun == InitRun /\ [][NextRun]_vars

----------------------------------------------------------------------------
(* The plan of one pass, for every occupancy of one column                  *)

\* the k-th row of a set of rows, in ascending order
KthRow(rows, k) ==
    CHOOSE r \in rows : Cardinality({s \in rows : s < r}) = k - 1

\* one entry for each row of rows in column, all induced or all not
ColumnEntries(rows, column, induced) ==
    [k \in 1..Cardinality(rows) |->
        [location |-> Location(KthRow(rows, k), column),
         blank |-> TRUE, induced |-> induced]]

InitPlan ==
    /\ tip_racks = [p \in Pipettes |-> IF p = "p300" THEN <<1>> ELSE <<2>>]
    /\ well_has_tip = [rk \in Racks |-> FullRack]
    /\ has_tip = [p \in Pipettes |-> FALSE]
    /\ tipsets = {}
    /\ max_volume = [p \in Pipettes |-> IF p = "p300" THEN 300 ELSE 20]
    /\ current_volume = [p \in Pipettes |-> Zero]
    /\ pc = "idle"
    /\ call = [NewCall("none", "p300") EXCEPT !.result = "ok"]
    /\ driver = << >>
    /\ ncalls = 0
    /\ \E rows \in SUBSET PlateRows, column \in PlateColumns, induced \in BOOLEAN :
           final_positions = ColumnEntries(rows, column, induced)
    /\ iptg_volume \in IptgVolumes
    /\ \E pass \in {0, 1} : run = [RunOff EXCEPT !.step = "plan", !.pass = pass]

NextPlan == RunPlan

SpecPlan == InitPlan /\ [][NextPlan]_vars

----------------------------------------------------------------------------
(* A deck whose racks are full or used up: pickups with refills, transfers   *)
(* that leave a residual, and calls of get_available_volume                  *)

\* a rack of which every tip was picked up
EmptyRack == [c \in Cols |-> [r \in Rows |-> FALSE]]
RackStates == {FullRack, EmptyRack}

\* counts and volumes of the calls: one tip or a column of tips; 9 uL fits
\* both pipettes, 100 uL the p300 only
DeckNumbers == {[isint |-> TRUE, val |-> n] : n \in {1, 8}}
DeckVolumes == {9, 100}

\* a call of get_available_volume() by the protocol: it reads has_tip,
\* max_volume, current_volume and, through next_tip(1), well.has_tip
GetAvailableVolume(p) ==
    /\ pc = "idle"
    /\ LET avail == get_available_volume(p, current_volume[p])
       IN  call' = [NewCall("get_available_volume", p) EXCEPT
                       !.searches = IF has_tip[p] THEN 0 ELSE 1,
                       !.available = avail.volume,
                       !.returned = avail.volume,
                       !.result = IF avail.ok THEN "ok" ELSE "OutOfTipsError"]
    /\ driver' = << >>
    /\ UNCHANGED <<tip_racks, well_has_tip, has_tip, tipsets, max_volume,
                   current_volume, pc, ncalls>>

InitDeck ==
    /\ tip_racks = [p \in Pipettes |-> IF p = "p300" THEN <<1>> ELSE <<2>>]
    /\ well_has_tip \in [Racks -> RackStates]
    /\ \A rk \in Racks : rk > 2 => well_has_tip[rk] = FullRack
    /\ has_tip = [p \in Pipettes |-> FALSE]
    /\ tipsets = {}
    /\ max_volume = [p \in Pipettes |-> IF p = "p300" THEN 300 ELSE 20]
    /\ current_volume = [p \in Pipettes |-> Zero]
    /\ pc = "idle"
    /\ call = [NewCall("none", "p300") EXCEPT !.result = "ok"]
    /\ driver = << >>
    /\ ncalls = 0
    /\ final_positions = << >>
    /\ iptg_volume = 0
    /\ run = RunOff

NextDeck ==
    \/ \E p \in Pipettes, number \in DeckNumbers :
           PickUpTip(p, number, NoSlot) /\ UNCHANGED runvars
    \/ OperatorAck /\ UNCHANGED runvars
    \/ Retry /\ UNCHANGED runvars
    \/ \E p \in Pipettes, volume \in DeckVolumes :
           Transfer(p, volume, FALSE, FALSE, TRUE) /\ UNCHANGED runvars
    \/ \E p \in Pipettes : DropTip(p) /\ UNCHANGED runvars
    \/ \E p \in Pipettes : GetAvailableVolume(p) /\ UNCHANGED runvars

SpecDeck == InitDeck /\ [][NextDeck]_vars

----------------------------------------------------------------------------
(* Properties of the allocator *)

\* the start rows of the runs of n available rows that fit in a column
Runs(table, rk, c, n) ==
    {s \in Rows : s + n <= NumRows /\ \A k \in s..(s + n - 1) : table[rk][c][k]}

\* no rack of the pipette has a column with a run of n available rows
NoRun(p, n) ==
    \A i \in 1..Len(tip_racks[p]), c \in Cols :
        Runs(well_has_tip, tip_racks[p][i], c, n) = {}

\* the count is a positive integer not above the channel count
ValidCount(p, number) ==
    number.isint /\ number.val >= 1 /\ number.val <= channels[p]

\* this step starts a pick_up_tip call without an explicit location
Acquires == pc = "idle" /\ ncalls' # ncalls /\ call'.op = "pick_up_tip"
            /\ call'.location = NoSlot

\* this step ends an acquire with a pickup, at once or after a refill
Acquired == (Acquires \/ pc = "retry") /\ call'.result = "ok"

\* C1: no tip slot is claimed by two live tip sets at the same time.
C1_NoSharedSlot ==
    \A t1, t2 \in tipsets : t1 # t2 => t1.slots \cap t2.slots = {}

\* both pipettes hold a tip set, the later one picked up after a refill
C1_Witness ==
    /\ Cardinality(tipsets) = 2
    /\ \A t \in tipsets : t.slots # {}
    /\ call.op = "pick_up_tip" /\ call.result = "ok" /\ call.resets = 1

\* C2: within the column it picks, acquire(n) returns the run with the
\* greatest start row among the runs of n available rows that fit; from a
\* column with all 8 rows available it takes rows 8-n..7.
C2_BottomAnchored ==
    [][Acquired =>
        LET t == call'.target
            n == call'.number.val
            runs == Runs(well_has_tip, t[1], t[2], n)
        IN  /\ t[3] \in runs
            /\ \A s \in runs : s <= t[3]
            /\ (\A r \in Rows : well_has_tip[t[1]][t[2]][r]) =>
                   /\ t[3] = 8 - n
                   /\ \E ts \in tipsets' \ tipsets :
                          ts.slots = {<<t[1], t[2], r>> : r \in (8 - n)..7}
    ]_vars

\* three tips were taken from a full column: rows 5-7
C2_Witness ==
    /\ call.op = "pick_up_tip" /\ call.result = "ok" /\ call.location = NoSlot
    /\ call.number.val = 3 /\ call.target[3] = 5
    /\ \E ts \in tipsets :
           ts.slots = {<<call.target[1], call.target[2], r>> : r \in 5..7}

\* C3: acquire returns a tip set in rack r, column c only if no rack before
\* r in the pipette's list, and no column of r before c, has a run of count
\* available rows.
C3_SearchOrder ==
    [][Acquired =>
        LET t == call'.target
            n == call'.number.val
            racks == tip_racks[call'.p]
        IN  \E i \in 1..Len(racks) :
                /\ racks[i] = t[1]
                /\ \A j \in 1..(i - 1), c \in Cols :
                       Runs(well_has_tip, racks[j], c, n) = {}
                /\ \A c \in 0..(t[2] - 1) : Runs(well_has_tip, t[1], c, n) = {}
    ]_vars

\* a pickup from the second column of the pipette's second rack
C3_Witness ==
    /\ call.op = "pick_up_tip" /\ call.result = "ok" /\ call.location = NoSlot
    /\ Len(tip_racks[call.p]) >= 2
    /\ call.target[1] = tip_racks[call.p][2]
    /\ call.target[2] = 1

\* C4: acquire with a count that is no positive integer or is above the
\* channel count fails with ValueError (InvalidRequest) without a search, a
\* prompt, a pickup or a change of a tip slot, and is over at once.
C4_InvalidRequest ==
    [][(Acquires /\ ~ValidCount(call'.p, call'.number)) =>
        /\ call'.result = "ValueError"
        /\ call'.searches = 0 /\ call'.prompts = 0 /\ call'.resets = 0
        /\ driver' = << >>
        /\ pc' = "idle"
        /\ well_has_tip' = well_has_tip
        /\ has_tip' = has_tip
        /\ tipsets' = tipsets
    ]_vars

\* the 8-channel pipette was asked for 0 tips and for 9 tips
C4_Witness ==
    /\ call.op = "pick_up_tip" /\ call.result = "ValueError"
    /\ call.p = "p20" /\ call.number.isint /\ call.number.val = 0

C6_AtMostOneRefill ==
    [][/\ call'.prompts <= 1 /\ call'.resets <= 1
       /\ (pc = "retry" /\ NoRun(call.p, call.number.val)) =>
              /\ call'.result = "OutOfTipsError"
              /\ pc' = "idle"
              /\ call'.prompts = 1 /\ call'.resets = 1
              /\ driver' = driver
              /\ well_has_tip' = well_has_tip
              /\ has_tip' = has_tip
              /\ tipsets' = tipsets
    ]_vars

\* an acquire ended with OutOfTipsError after its refill
C6_Witness ==
    /\ call.op = "pick_up_tip" /\ call.result = "OutOfTipsError"
    /\ call.prompts = 1 /\ call.resets = 1

\* C7: after the refill for a pipette, every slot of every rack of that
\* pipette is available, whatever was available before.
C7_RefillFillsRacks ==
    pc = "retry" =>
        \A i \in 1..Len(tip_racks[call.p]), c \in Cols, r \in Rows :
            well_has_tip[tip_racks[call.p][i]][c][r]

\* the refill of a pipette with two racks has just reset them
C7_Witness ==
    /\ pc = "retry"
    /\ Len(tip_racks[call.p]) = 2

----------------------------------------------------------------------------
(* Properties of the volume guard and of transfer (under SpecTransfer) *)

\* the last call is a transfer by a pipette that holds a tip and held no
\* liquid, and it got past the search: its headroom was max_volume
Transferred ==
    /\ call.op = "transfer"
    /\ has_tip[call.p]
    /\ call.result \in {"ok", "ValueError"}

\* 1.1 * v <= h in exact arithmetic, v and h in uL
WithinHeadroom(v, h) == 11 * v <= 10 * h

C9_AsWritten ==
    (Transferred /\ call.available = Dbl(10)) =>
        /\ call.volume = 15 => call.result = "ValueError"
        /\ (call.volume = 9 /\ call.reverse) =>
               /\ call.result = "ok"
               /\ call.aspiration_volume = Dbl(9)

\* C9, amended: with headroom 10, 15 uL is refused with ValueError, and
\* 9 uL with reverse set succeeds at the aspiration volume 9.9 (the double
\* that the literal 9.9 denotes), of which 9 uL are dispensed.
C9_Amended ==
    (Transferred /\ call.available = Dbl(10)) =>
        /\ call.volume = 15 =>
               /\ call.result = "ValueError"
               /\ \A i \in 1..Len(driver) : driver[i].op # "aspirate"
        /\ (call.volume = 9 /\ call.reverse) =>
               /\ call.result = "ok"
               /\ call.aspiration_volume = FloatRound(99, 0)
               /\ \E i \in 1..Len(driver) :
                      /\ driver[i].op = "aspirate"
                      /\ driver[i].volume = FloatRound(99, 0)
               /\ \E i \in 1..Len(driver) :
                      /\ driver[i].op = "dispense"
                      /\ driver[i].volume = Dbl(9)

\* 9 uL were transferred with reverse set at headroom 10
C9_Witness ==
    /\ Transferred /\ call.available = Dbl(10)
    /\ call.volume = 9 /\ call.reverse /\ call.result = "ok"

\* the margin is applied: reverse is set and 1.1 * v is within the headroom
MarginApplied == call.reverse /\ WithinHeadroom(call.volume, max_volume[call.p])

\* C10 as written: after a successful transfer the held volume is 0 unless
\* the margin was applied, and then it is aspirated minus requested; the
\* value returned is the held volume.
C10_AsWritten ==
    (Transferred /\ call.result = "ok") =>
        /\ current_volume[call.p] =
               IF MarginApplied
               THEN FloatSub(call.aspiration_volume, Dbl(call.volume))
               ELSE Zero
        /\ call.returned = current_volume[call.p]

\* C10, amended: after a successful transfer the held volume is 0 unless
\* the margin was applied and blow_out is not set, and then it is aspirated
\* minus requested; with blow_out set the held volume is 0; the value
\* returned is the held volume.
C10_Amended ==
    (Transferred /\ call.result = "ok") =>
        /\ current_volume[call.p] =
               IF MarginApplied /\ ~call.blow_out
               THEN FloatSub(call.aspiration_volume, Dbl(call.volume))
               ELSE Zero
        /\ call.returned = current_volume[call.p]

\* a transfer with the margin and without blow_out left liquid in the tip
C10_Witness ==
    /\ Transferred /\ call.result = "ok"
    /\ MarginApplied /\ ~call.blow_out /\ call.volume = 9
    /\ current_volume[call.p] # Zero
    /\ call.returned = current_volume[call.p]

----------------------------------------------------------------------------
(* Properties of run() (under SpecRun) and of the plan (under SpecPlan) *)

\* the capacity of the tip on pipette p: the tip's nominal volume, at most
\* the pipette's rated volume
TipCapacity(p) ==
    LET t == CHOOSE u \in tipsets : u.p = p
        w == CHOOSE x \in t.slots : TRUE
    IN  Dbl(Min(TipVolume(w[1]), max_volume[p]))

\* the volume held after the first k library calls of the last transfer;
\* what was held before the transfer is what its first call returned to the
\* source
RECURSIVE HeldAfter(_)
HeldAfter(k) ==
    IF k = 0
    THEN IF Len(driver) > 0 /\ driver[1].op = "dispense" /\ driver[1].at = "source"
         THEN driver[1].volume ELSE Zero
    ELSE LET d == driver[k]
             before == HeldAfter(k - 1)
         IN  IF d.op = "aspirate" THEN FloatAdd(before, d.volume)
             ELSE IF d.op = "dispense" THEN
                  (IF FloatLeq(before, d.volume) THEN Zero
                   ELSE FloatSub(before, d.volume))
             ELSE IF d.op = "blow_out" THEN Zero
             ELSE before

\* C11: in every state of a run, after any sequence of transfers, the volume
\* a pipette holds is between 0 and the capacity of its tip (0 without a
\* tip), and after no library call of a transfer, an aspirate in particular,
\* is the held volume above the capacity.
C11_HeldWithinCapacity ==
    /\ \A p \in Pipettes :
           /\ FloatLeq(Zero, current_volume[p])
           /\ ~has_tip[p] => current_volume[p] = Zero
           /\ has_tip[p] => FloatLeq(current_volume[p], TipCapacity(p))
    /\ (call.op = "transfer" /\ has_tip[call.p]) =>
           \A k \in 0..Len(driver) :
               /\ FloatLeq(Zero, HeldAfter(k))
               /\ FloatLeq(HeldAfter(k), TipCapacity(call.p))

\* 280 uL were aspirated into the 300 uL tip without the margin, and the
\* tip holds the margin of a smaller transfer at another moment
C11_Witness ==
    /\ run.step = "lb"
    /\ call.op = "transfer" /\ call.result = "ok" /\ call.volume = 280
    /\ call.aspiration_volume = Dbl(280)
    /\ \E k \in 1..Len(driver) : driver[k].op = "aspirate"
                                  /\ HeldAfter(k) = Dbl(280)

\* C12: every pickup of a run (bulk fill, cells, both induction passes) asks
\* for a count between 1 and the channel count of its pipette, succeeds, and
\* takes that many tips.
C12_PickupCounts ==
    [][(call'.op = "pick_up_tip" /\ ncalls' = ncalls + 1) =>
        /\ ValidCount(call'.p, call'.number)
        /\ call'.number.val >= 1 /\ call'.number.val <= channels[call'.p]
        /\ call'.result = "ok"
        /\ \E t \in tipsets' \ tipsets :
               t.p = call'.p /\ Cardinality(t.slots) = call'.number.val
    ]_vars

\* the second pass picked up two tips for a column with two wells
C12_Witness ==
    /\ run.step = "induce_transfer" /\ run.pass = 1
    /\ call.op = "pick_up_tip" /\ call.p = "p20" /\ call.number.val = 2
    /\ \E t \in tipsets : t.p = "p20" /\ Cardinality(t.slots) = 2

ColumnWells(pass, column) ==
    {loc \in PassLocations(pass) : loc.column = column}

\* C14: in an induction pass a column without an occupied row causes no
\* pickup, no transfer and no change of tips, racks or volumes; a column
\* with an occupied row gets a pickup by the p20; pickup, transfer and drop
\* of a pass happen for columns with an occupied row only.
C14_EmptyColumnSkipped ==
    [][/\ (run.step = "induce" /\ ColumnWells(run.pass, run.column) = {}) =>
              /\ UNCHANGED <<call, driver, ncalls, well_has_tip, has_tip,
                             tipsets, current_volume, pc>>
              /\ run'.step \in {"induce", "plan", "home"}
       /\ (run.step = "induce" /\ ColumnWells(run.pass, run.column) # {}) =>
              /\ call'.op = "pick_up_tip" /\ call'.p = "p20"
              /\ ncalls' = ncalls + 1
              /\ call'.result = "ok" /\ run'.step = "induce_transfer"
              /\ run'.column = run.column
       /\ run'.step \in {"induce_transfer", "induce_drop"} =>
              ColumnWells(run'.pass, run'.column) # {}
    ]_vars

\* the first column of a pass was passed over and the second got its pickup
C14_Witness ==
    /\ run.step = "induce_transfer" /\ run.column = 2
    /\ ColumnWells(run.pass, 1) = {}
    /\ call.op = "pick_up_tip" /\ call.result = "ok"
    /\ Len(driver) = 1

\* the occupied rows of column column in the target set of pass pass
OccupiedRows(pass, column) == {loc.row : loc \in ColumnWells(pass, column)}

\* C15: for every occupancy of a column with at least one occupied row, the
\* plan has start_row equal to the lowest occupied row and tip_count equal
\* to the number of occupied rows; rows C, D, E give start_row 2, count 3.
C15_PlanOfColumn ==
    run.step = "induce" =>
        \A column \in PlateColumns :
            LET rows == OccupiedRows(run.pass, column)
                plan == run.column_occupancy[column]
            IN  rows # {} =>
                    /\ plan[1] \in rows
                    /\ \A r \in rows : plan[1] <= r
                    /\ plan[2] = Cardinality(rows)
                    /\ rows = {2, 3, 4} => plan = <<2, 3>>

\* the plan of the column with rows C, D and E occupied
C15_Witness ==
    /\ run.step = "induce"
    /\ \E column \in PlateColumns :
           /\ OccupiedRows(run.pass, column) = {2, 3, 4}
           /\ run.column_occupancy[column] = <<2, 3>>

\* the rows form one run without a gap
Contiguous(rows) ==
    \A r \in PlateRows :
        (\E a \in rows : a <= r) /\ (\E b \in rows : r <= b) => r \in rows

\* C16: the wells under the tips of the one delivery to a column are the
\* rows start_row .. start_row+tip_count-1; they are exactly the occupied
\* wells iff the occupied rows are contiguous, and otherwise the delivery
\* reaches a well that is not occupied and misses an occupied one.
C16_DeliveryRows ==
    run.step = "induce_drop" =>
        LET wells == ColumnWells(run.pass, run.column)
            rows == OccupiedRows(run.pass, run.column)
            plan == run.column_occupancy[run.column]
        IN  /\ wells # {}
            /\ run.served =
                   {Location(r, run.column) : r \in plan[1]..(plan[1] + plan[2] - 1)}
            /\ (run.served = wells) <=> Contiguous(rows)
            /\ ~Contiguous(rows) =>
                   /\ \E w \in run.served : w \notin wells
                   /\ \E w \in wells : w \notin run.served

\* the delivery to a column with rows B and F occupied went to B and C
C16_Witness ==
    /\ run.step = "induce_drop"
    /\ OccupiedRows(run.pass, run.column) = {1, 5}
    /\ run.served = {Location(1, run.column), Location(2, run.column)}

\* C17 as written: after a tip set is dropped, the slots it had claimed
\* have a tip again.
C17_AsWritten ==
    [][\A t \in tipsets \ tipsets' :
           \A w \in t.slots : well_has_tip'[w[1]][w[2]][w[3]]
    ]_vars

\* C17, amended: the drop of a tip set does not make the slots it had
\* claimed available again: the drop changes no rack slot, and a slot gets
\* a tip again only through the rack reset of a refill.
C17_Amended ==
    [][/\ \A t \in tipsets \ tipsets' :
              /\ well_has_tip' = well_has_tip
              /\ call'.op = "drop_tip"
       /\ \A w \in Slots :
              (~well_has_tip[w[1]][w[2]][w[3]] /\ well_has_tip'[w[1]][w[2]][w[3]])
                  => (pc = "input" /\ pc' = "retry")
    ]_vars

\* three tips were dropped and their slots are without a tip
C17_Witness ==
    /\ call.op = "drop_tip" /\ call.result = "ok" /\ call.p = "p20"
    /\ tipsets = {}
    /\ \A r \in 5..7 : ~well_has_tip[2][0][r]
    /\ \A r \in 0..4 : well_has_tip[2][0][r]

\* C18: from the prompt of an exhausted acquire until the acknowledgment no
\* library call is issued and no rack is reset: when the acquire starts to
\* wait it has issued the prompt only; while it waits the only step is the
\* acknowledgment, which resets the racks; the search and the pickup of the
\* retry come after it.
C18_RefillBlocks ==
    [][/\ (pc # "input" /\ pc' = "input") =>
              /\ Len(driver') = 1 /\ driver'[1].op = "input"
              /\ call'.resets = 0
              /\ UNCHANGED <<well_has_tip, has_tip, tipsets, current_volume>>
       /\ pc = "input" =>
              /\ pc' = "retry"
              /\ call' = [call EXCEPT !.resets = 1]
              /\ Len(driver') = 2 /\ driver'[1] = driver[1]
              /\ driver'[2].op = "reset_tipracks"
              /\ \A i \in 1..Len(tip_racks[call.p]) :
                     well_has_tip'[tip_racks[call.p][i]] = FullRack
              /\ UNCHANGED <<has_tip, tipsets, current_volume, ncalls>>
       /\ well_has_tip' # well_has_tip =>
              \/ pc = "input"
              \/ /\ call'.result = "ok" /\ call'.op = "pick_up_tip"
                 /\ driver'[Len(driver')].op = "pick_up_tip"
       /\ (pc = "retry" /\ call'.result = "ok") =>
              /\ Len(driver') = 3
              /\ driver'[1].op = "input" /\ driver'[2].op = "reset_tipracks"
              /\ driver'[3].op = "pick_up_tip"
    ]_vars

\* an acquire is blocked in the prompt, the racks not yet reset
C18_Witness ==
    /\ pc = "input"
    /\ call.prompts = 1 /\ call.resets = 0
    /\ Len(driver) = 1
    /\ \E i \in 1..Len(tip_racks[call.p]) :
           well_has_tip[tip_racks[call.p][i]] # FullRack

\* this step is a call of transfer by run()
RunTransfers ==
    /\ run.step \in {"lb", "cell_transfer", "induce_transfer"}
    /\ call'.op = "transfer"

\* C19: a transfer that fails the capacity check (ValueError) has issued no
\* aspirate, no dispense into the destination, no blow-out and no touch-tip
\* (at most the return of the residual to the source); it is not called
\* again: the exception ends run().
C19_FailedTransfer ==
    [][/\ (RunTransfers /\ call'.result = "ValueError") =>
              /\ FloatGt(call'.aspiration_volume, call'.available)
              /\ \A k \in 1..Len(driver') :
                     driver'[k].op = "dispense" /\ driver'[k].at = "source"
              /\ Len(driver') <= 1
              /\ run'.step = "aborted"
       /\ (RunTransfers /\ FloatGt(Dbl(call'.volume), Dbl(max_volume[call'.p]))) =>
              call'.result = "ValueError"
       /\ run.step # "aborted"
    ]_vars

\* the second LB transfer was refused after the residual went back to the
\* source
C19_Witness ==
    /\ run.step = "aborted"
    /\ call.op = "transfer" /\ call.result = "ValueError"
    /\ Len(driver) = 1 /\ driver[1].op = "dispense" /\ driver[1].at = "source"

\* C20: a transfer called while the pipette holds a residual first
\* dispenses all of it into the source, so the headroom is computed, and
\* the aspirate issued, at a held volume of 0: the headroom is the whole
\* max_volume.
C20_ResidualCleared ==
    [][RunTransfers =>
        LET residual == current_volume[call'.p]
            first == IF residual = Zero THEN 1 ELSE 2
        IN  /\ residual # Zero =>
                   /\ Len(driver') >= 1
                   /\ driver'[1] = DriverCall("dispense", residual, "source")
            /\ call'.available = Dbl(max_volume[call'.p])
            /\ \A k \in 1..Len(driver') :
                   /\ driver'[k].op = "aspirate" => k = first
                   /\ (driver'[k].op = "dispense" /\ driver'[k].at = "source")
                          => (k = 1 /\ residual # Zero)
            /\ call'.result = "ok" =>
                   /\ Len(driver') >= first
                   /\ driver'[first].op = "aspirate"
                   /\ driver'[first].volume = call'.aspiration_volume
    ]_vars

\* a transfer returned the 10 uL left by the transfer before it and then
\* aspirated
C20_Witness ==
    /\ call.op = "transfer" /\ call.result = "ok"
    /\ Len(driver) >= 2
    /\ driver[1] = DriverCall("dispense", FloatSub(FloatMul11(100), Dbl(100)), "source")
    /\ driver[2].op = "aspirate"

----------------------------------------------------------------------------
(* The order of the library calls of a transfer (under SpecTransfer), the   *)
(* steps of the induction of a column (under SpecRun), the frame of an      *)
(* acquire (under Spec)                                                      *)

\* the library calls of the last transfer after the return of a residual
\* to the source, if there was one
AfterResidual ==
    IF Len(driver) > 0 /\ driver[1].op = "dispense" /\ driver[1].at = "source"
    THEN Tail(driver) ELSE driver

\* C21: a successful transfer issues, in this order, the aspirate from the
\* source, the dispense of the requested volume (not of the aspirated
\* volume) into the destination, a blow-out at the destination iff
\* blow_out is set, and a touch-tip at the destination iff touch_tip is
\* set.
C21_CallOrder ==
    (call.op = "transfer" /\ call.result = "ok") =>
        AfterResidual =
            <<DriverCall("aspirate", call.aspiration_volume, "source"),
              DriverCall("dispense", Dbl(call.volume), "destination")>>
            \o (IF call.blow_out
                THEN <<DriverCall("blow_out", Zero, "destination")>> ELSE << >>)
            \o (IF call.touch_tip
                THEN <<DriverCall("touch_tip", Zero, "destination")>> ELSE << >>)

\* a transfer with the margin, blow_out and touch_tip issued four calls
C21_Witness ==
    /\ call.op = "transfer" /\ call.result = "ok"
    /\ call.blow_out /\ call.touch_tip
    /\ call.aspiration_volume # Dbl(call.volume)
    /\ Len(driver) = 4
    /\ driver[3].op = "blow_out" /\ driver[4].op = "touch_tip"

\* C22: for a column with an occupied row the induction makes one pickup
\* of tip_count tips, then one transfer of the inducer volume into the
\* well at start_row of that column, then one drop, and only the drop
\* leads to the next column.
C22_ColumnSteps ==
    [][/\ (run.step = "induce" /\ OccupiedRows(run.pass, run.column) # {}) =>
              /\ call'.op = "pick_up_tip" /\ call'.p = "p20"
              /\ call'.location = NoSlot /\ call'.number.isint
              /\ call'.number.val = Cardinality(OccupiedRows(run.pass, run.column))
              /\ call'.result = "ok"
              /\ \E t \in tipsets' : t.p = "p20"
                     /\ Cardinality(t.slots) = call'.number.val
              /\ run'.step = "induce_transfer" /\ run'.column = run.column
       /\ run.step = "induce_transfer" =>
              /\ call'.op = "transfer" /\ call'.p = "p20"
              /\ call'.volume = iptg_volume
              /\ run'.column = run.column
              /\ call'.result = "ok" =>
                     /\ run'.step = "induce_drop"
                     /\ \E w \in run'.served :
                            /\ w.column = run.column
                            /\ w.row \in OccupiedRows(run.pass, run.column)
                            /\ \A r \in OccupiedRows(run.pass, run.column) : w.row <= r
                            /\ \A x \in run'.served : w.row <= x.row
              /\ call'.result # "ok" => run'.step = "aborted"
       /\ run.step = "induce_drop" =>
              /\ call'.op = "drop_tip" /\ call'.p = "p20"
              /\ tipsets' = {} /\ ~has_tip'["p20"]
              /\ run'.column = run.column + 1
              /\ run'.step \in {"induce", "plan", "home"}
       /\ (run.step \in {"induce", "induce_transfer", "induce_drop"}
              /\ run'.column # run.column
              /\ OccupiedRows(run.pass, run.column) # {}) =>
              run.step = "induce_drop"
    ]_vars

\* the delivery to row C of a column with rows C and F occupied
C22_Witness ==
    /\ run.step = "induce_drop"
    /\ call.op = "transfer" /\ call.result = "ok"
    /\ OccupiedRows(run.pass, run.column) = {2, 5}
    /\ Location(2, run.column) \in run.served
    /\ \E t \in tipsets : t.p = "p20" /\ Cardinality(t.slots) = 2

\* C23: a successful acquire that needed no refill takes the tips off
\* exactly the count slots of its tip set (the rows from the target on) and
\* changes no other slot of any rack; a slot gets a tip again only through
\* the rack reset of a refill.
C23_AcquireFrame ==
    [][/\ (Acquired /\ call'.resets = 0) =>
              LET t == call'.target
                  n == call'.number.val
                  claimed == {<<t[1], t[2], r>> : r \in t[3]..(t[3] + n - 1)}
              IN  /\ Cardinality(claimed) = n
                  /\ \E ts \in tipsets' \ tipsets : ts.slots = claimed
                  /\ \A w \in Slots :
                         well_has_tip'[w[1]][w[2]][w[3]] =
                             (well_has_tip[w[1]][w[2]][w[3]] /\ w \notin claimed)
                  /\ \A w \in claimed : well_has_tip[w[1]][w[2]][w[3]]
       /\ \A w \in Slots :
              (~well_has_tip[w[1]][w[2]][w[3]] /\ well_has_tip'[w[1]][w[2]][w[3]])
                  => (pc = "input" /\ call'.resets = call.resets + 1)
    ]_vars

\* the 8-channel pipette took three tips from a column of which it had
\* taken three before
C23_Witness ==
    /\ call.op = "pick_up_tip" /\ call.result = "ok" /\ call.location = NoSlot
    /\ call.resets = 0 /\ call.p = "p20" /\ call.number.val = 3
    /\ call.target[3] = 2
    /\ \A r \in Rows : well_has_tip[call.target[1]][call.target[2]][r] = (r < 2)

----------------------------------------------------------------------------
(* get_available_volume as a lookahead, and the frame of a refill (under    *)
(* SpecDeck)                                                                 *)

\* C24: get_available_volume is a lookahead: with a tip held it returns
\* the capacity of the tip minus the held volume; without a tip it returns
\* the minimum of the nominal volume of the next tip that next_tip(1) finds
\* and the pipette's max_volume; it changes no tip slot, no tip set and no
\* held volume, and neither prompts nor calls the library.
C24_HeadroomLookahead ==
    [][call'.op = "get_available_volume" =>
        LET p == call'.p
            racks == tip_racks[p]
        IN  /\ has_tip[p] =>
                   /\ call'.result = "ok"
                   /\ call'.returned = FloatSub(TipCapacity(p), current_volume[p])
            /\ (~has_tip[p] /\ ~NoRun(p, 1)) =>
                   /\ call'.result = "ok"
                   /\ \E i \in 1..Len(racks) :
                          /\ \E c \in Cols : Runs(well_has_tip, racks[i], c, 1) # {}
                          /\ \A j \in 1..(i - 1), c \in Cols :
                                 Runs(well_has_tip, racks[j], c, 1) = {}
                          /\ call'.returned =
                                 Dbl(Min(TipVolume(racks[i]), max_volume[p]))
            /\ (~has_tip[p] /\ NoRun(p, 1)) => call'.result = "OutOfTipsError"
            /\ call'.prompts = 0 /\ call'.resets = 0
            /\ driver' = << >>
            /\ UNCHANGED <<tip_racks, well_has_tip, has_tip, tipsets,
                           max_volume, current_volume, pc, ncalls>>
    ]_vars

\* the headroom of the p300 while its tip holds the 10 uL margin of a
\* transfer of 100 uL
C24_Witness ==
    /\ call.op = "get_available_volume" /\ call.p = "p300"
    /\ has_tip["p300"]
    /\ current_volume["p300"] = FloatSub(FloatMul11(100), Dbl(100))
    /\ call.returned = FloatSub(Dbl(300), current_volume["p300"])
    /\ call.returned # Dbl(300)

\* rack rk is one of the racks of pipette p
RackOf(p, rk) == \E i \in 1..Len(tip_racks[p]) : tip_racks[p][i] = rk

\* C27: an acquire prompts for a refill only when no column of any rack of
\* its pipette has a run of count available rows; the refill for one
\* pipette changes no rack of the other pipette and no held volume.
C27_RefillFrame ==
    [][/\ (pc # "input" /\ pc' = "input") =>
              /\ call'.op = "pick_up_tip"
              /\ NoRun(call'.p, call'.number.val)
       /\ pc = "input" =>
              /\ \A rk \in Racks :
                     ~RackOf(call.p, rk) => well_has_tip'[rk] = well_has_tip[rk]
              /\ current_volume' = current_volume
              /\ has_tip' = has_tip /\ tipsets' = tipsets
    ]_vars

\* the racks of the p20 were refilled while the rack of the p300 is used
\* up and the p300 holds liquid
C27_Witness ==
    /\ pc = "retry" /\ call.p = "p20"
    /\ well_has_tip[2] = FullRack
    /\ well_has_tip[1] # FullRack
    /\ current_volume["p300"] # Zero

----------------------------------------------------------------------------
(* The shape of the racks and the end of every acquire (under Spec and      *)
(* SpecFair)                                                                 *)

\* in every column of every rack the rows with a tip are the rows 0..k-1
\* for some k: no row with a tip is below (has a higher index than) a row
\* without one
Blocks(table) ==
    \A rk \in Racks, c \in Cols, r1 \in Rows, r2 \in Rows :
        (r1 < r2 /\ table[rk][c][r2]) => table[rk][c][r1]

\* C25: pickups without an explicit location, refills and drops keep the
\* tips of every rack column a block of consecutive rows from row 0 on; the
\* racks start that way.
C25_ColumnsAreBlocks ==
    [][/\ ncalls = 0 => Blocks(well_has_tip)
       /\ (Blocks(well_has_tip)
              /\ ~(call'.op = "pick_up_tip" /\ call'.location # NoSlot
                    /\ ncalls' # ncalls))
              => Blocks(well_has_tip')
    ]_vars

\* the single-channel pipette took the bottom tip of a column after two
\* tips were taken from it
C25_Witness ==
    /\ Blocks(well_has_tip)
    /\ call.op = "pick_up_tip" /\ call.result = "ok" /\ call.location = NoSlot
    /\ call.p = "p300" /\ call.target = <<1, 0, 5>>
    /\ \A r \in Rows : well_has_tip[1][0][r] = (r < 5)

\* C26 as written: an acquire with a valid count by a pipette with a rack
\* always ends with a tip set.
C26_AsWritten ==
    (/\ pc = "idle" /\ call.op = "pick_up_tip" /\ call.location = NoSlot
     /\ ValidCount(call.p, call.number) /\ Len(tip_racks[call.p]) >= 1)
        => call.result = "ok"

\* an acquire with a valid count by a pipette with a rack is waiting for the
\* operator or is at its retry
Refilling ==
    /\ pc \in {"input", "retry"}
    /\ Len(tip_racks[call.p]) >= 1

\* C26, amended: for a pipette with at least one rack and a valid count the
\* search after the refill always finds a run, so the acquire never ends
\* with OutOfTipsError; when the operator acknowledges, the acquire ends: a
\* pipette without a tip gets its tip set, a pipette that already holds
\* tips is refused by the library's pickup.
C26_Amended ==
    /\ [](Refilling => ValidCount(call.p, call.number))
    /\ []((pc = "retry" /\ Len(tip_racks[call.p]) >= 1) =>
             ~NoRun(call.p, call.number.val))
    /\ []((/\ pc = "idle" /\ call.op = "pick_up_tip" /\ call.location = NoSlot
           /\ ValidCount(call.p, call.number) /\ Len(tip_racks[call.p]) >= 1) =>
              \/ call.result = "ok" /\ has_tip[call.p]
                 /\ \E t \in tipsets : t.p = call.p
                        /\ Cardinality(t.slots) = call.number.val
              \/ call.result = "TipAttachedError" /\ has_tip[call.p])
    /\ ((Refilling /\ ~has_tip[call.p]) ~>
            (pc = "idle" /\ call.result = "ok" /\ call.resets = 1
             /\ has_tip[call.p]))
    /\ (Refilling ~> pc = "idle")

\* an acquire of a column of tips ended with its tip set after a refill
C26_Witness ==
    /\ pc = "idle" /\ call.op = "pick_up_tip" /\ call.result = "ok"
    /\ call.resets = 1 /\ call.number.val = 8 /\ call.searches = 2
    /\ \E t \in tipsets : t.p = call.p /\ Cardinality(t.slots) = 8

----------------------------------------------------------------------------
(* The bounds of a column plan (under SpecPlan), the cell step and the two  *)
(* induction passes (under SpecRun)                                          *)

\* C28: every column plan with tip_count > 0 has start_row + tip_count <= 8
\* and tip_count <= 8, whatever rows of A-H are occupied: the count is a
\* valid request for the 8-channel p20, and the span start_row ..
\* start_row + tip_count - 1 stays within rows A-H.
C28_PlanWithinColumn ==
    run.step = "induce" =>
        \A column \in PlateColumns :
            LET plan == run.column_occupancy[column]
            IN  plan[2] > 0 =>
                    /\ plan[1] + plan[2] <= NumRows
                    /\ plan[2] <= NumRows
                    /\ plan[1] >= 0
                    /\ ~InvalidNumber("p20", [isint |-> TRUE, val |-> plan[2]])
                    /\ \A r \in plan[1]..(plan[1] + plan[2] - 1) : r \in PlateRows

\* the plan of a column with row H alone, and the plan of a full column
C28_Witness ==
    /\ run.step = "induce"
    /\ \E column \in PlateColumns :
           \/ /\ OccupiedRows(run.pass, column) = {7}
              /\ run.column_occupancy[column] = <<7, 1>>
              /\ run.pass = 1
           \/ /\ OccupiedRows(run.pass, column) = PlateRows
              /\ run.column_occupancy[column] = <<0, 8>>
              /\ run.pass = 1
              /\ column = 2

\* C29: in the cell step an entry whose source is "blank" causes no pickup
\* and no transfer; any other entry causes one pickup of one tip, then one
\* transfer of its cell volume, then one drop, all on the p300 when the
\* cell volume exceeds 10 and on the p20 otherwise, before the next entry.
C29_CellStep ==
    [][/\ (run.step = "cells" /\ final_positions[run.i].blank) =>
              /\ UNCHANGED <<call, driver, ncalls, well_has_tip, has_tip,
                             tipsets, current_volume, pc>>
              /\ run'.i = run.i + 1
              /\ run'.step \in {"cells", "plan"}
       /\ (run.step = "cells" /\ ~final_positions[run.i].blank) =>
              /\ call'.op = "pick_up_tip" /\ ncalls' = ncalls + 1
              /\ call'.number = [isint |-> TRUE, val |-> 1]
              /\ call'.location = NoSlot
              /\ call'.result = "ok"
              /\ \E t \in tipsets' \ tipsets :
                     t.p = call'.p /\ Cardinality(t.slots) = 1
              /\ Cardinality(tipsets') = 1
              /\ run'.step = "cell_transfer" /\ run'.i = run.i
              /\ run'.pipette = call'.p
              /\ run'.volume > 10 => call'.p = "p300"
              /\ run'.volume <= 10 => call'.p = "p20"
       /\ run.step = "cell_transfer" =>
              /\ call'.op = "transfer" /\ call'.p = run.pipette
              /\ call'.volume = run.volume
              /\ call'.result = "ok"
              /\ ncalls' = ncalls /\ tipsets' = tipsets
              /\ run'.step = "cell_drop" /\ run'.i = run.i
              /\ run'.pipette = run.pipette
       /\ run.step = "cell_drop" =>
              /\ call'.op = "drop_tip" /\ call'.p = run.pipette
              /\ ncalls' = ncalls
              /\ tipsets' = {} /\ ~has_tip'[run.pipette]
              /\ run'.i = run.i + 1
              /\ run'.step \in {"cells", "plan"}
       /\ run'.step = "cell_transfer" => run.step = "cells"
       /\ run'.step = "cell_drop" => run.step = "cell_transfer"
    ]_vars

\* the first entry was a blank and was passed over; the second got 10 uL of
\* cells from the p20, which is about to drop its tip
C29_Witness ==
    /\ run.step = "cell_drop" /\ run.i = 2
    /\ final_positions[1].blank /\ ~final_positions[2].blank
    /\ run.pipette = "p20" /\ run.volume = 10
    /\ call.op = "transfer" /\ call.result = "ok"
    /\ ncalls = 2

\* the destination wells of the run
Destinations == {final_positions[k].location : k \in 1..Len(final_positions)}

\* the destination wells listed in induced_wells, or the others
InducedWells(induced) ==
    {final_positions[k].location : k \in
        {j \in 1..Len(final_positions) : final_positions[j].induced = induced}}

\* C30: the induction is two passes in a fixed order: first the induced
\* destination wells with the inducer as source, then the other destination
\* wells with plain LB; every destination well is in exactly one pass; the
\* second pass begins only when no delivery of the first holds tips.
C30_TwoPasses ==
    [][/\ InducedWells(TRUE) \cap InducedWells(FALSE) = {}
       /\ InducedWells(TRUE) \cup InducedWells(FALSE) = Destinations
       /\ (run.step = "plan" /\ run.pass = 0) =>
              /\ run'.pass = 0 /\ run'.step = "induce"
              /\ run'.iptg_source = "iptg_location"
              /\ run'.column_occupancy = ColumnPlan(InducedWells(TRUE))
       /\ (run.step = "plan" /\ run.pass = 1) =>
              /\ run'.pass = 1 /\ run'.step = "induce"
              /\ run'.iptg_source = "lb_location"
              /\ run'.column_occupancy = ColumnPlan(InducedWells(FALSE))
       /\ run'.pass # run.pass =>
              /\ run.pass = 0 /\ run'.pass = 1
              /\ run.step \in {"induce", "induce_drop"}
              /\ run.column_occupancy = ColumnPlan(InducedWells(TRUE))
              /\ run'.step = "plan"
              /\ tipsets' = {} /\ \A p \in Pipettes : ~has_tip'[p]
       /\ run.step \in {"induce", "induce_transfer", "induce_drop"} =>
              /\ run.iptg_source =
                     (IF run.pass = 0 THEN "iptg_location" ELSE "lb_location")
              /\ run'.step \in {"induce", "induce_transfer", "induce_drop",
                                 "aborted"} => run'.pass = run.pass
              /\ run'.step = "home" => run.pass = 1
       /\ run'.step = "home" => run.pass = 1
    ]_vars

\* the second pass delivered plain LB to its well after the first pass
\* delivered the inducer to the other well
C30_Witness ==
    /\ run.step = "induce_drop" /\ run.pass = 1
    /\ run.iptg_source = "lb_location"
    /\ InducedWells(TRUE) # {} /\ InducedWells(FALSE) # {}
    /\ ncalls = 3
    /\ call.op = "transfer" /\ call.result = "ok"

====
